---- MODULE Spec2Model ----
(***************************************************************************)
(* Model of pyconnectome/utils/filetools.py: the TRK->TCK and VTK->TCK     *)
(* tractogram converters, the MRtrix b0 extraction, the single-volume      *)
(* extraction and the two FSL wrappers (fslreorient2std, apply_mask).      *)
(*                                                                         *)
(* A behaviour is one caller session: Init fixes the call the caller makes *)
(* (function and arguments) and the content of the filesystem, and the     *)
(* caller then issues that call up to `remaining` times.  Each function is *)
(* cut into one action per external interaction that can fail, so that the *)
(* state at every exit (return or raise) of the Python function is a state *)
(* of the model.  Paths and command-line words are sequences of            *)
(* one-character strings, so that endswith, glob prefixes, os.path and     *)
(* "%i" formatting are computed and not assumed.                           *)
(***************************************************************************)
EXTENDS Integers, Sequences, FiniteSets, TLC

(***************************************************************************)
(* Bounds of the model.                                                    *)
(***************************************************************************)
MaxCalls == 2
MaxPathLen == 5
MaxCells == 2
MaxPts == 2
MaxVols == 2
MaxThreads == 11

(***************************************************************************)
(* Strings.                                                                *)
(***************************************************************************)
NoneValue == <<"None">>

Str_tck == <<".", "t", "c", "k">>
Str_tractconverter_ == <<"t", "r", "a", "c", "t", "c", "o", "n", "v", "e", "r", "t", "e", "r", "_">>
Str_tmp_trk == <<"t", "m", "p", ".", "t", "r", "k">>
Str_gettempdir == <<"/", "t", "m", "p">>

\* str.endswith(suffix)
endswith(s, suffix) ==
    /\ Len(suffix) <= Len(s)
    /\ SubSeq(s, Len(s) - Len(suffix) + 1, Len(s)) = suffix

\* str.startswith(prefix): what a glob pattern "prefix*" matches
startswith(s, prefix) ==
    /\ Len(prefix) <= Len(s)
    /\ SubSeq(s, 1, Len(prefix)) = prefix

Digit(d) == <<"0", "1", "2", "3", "4", "5", "6", "7", "8", "9">>[d + 1]

RECURSIVE FormatNat(_)
FormatNat(n) == IF n < 10 THEN <<Digit(n)>>
                ELSE FormatNat(n \div 10) \o <<Digit(n % 10)>>

\* "%i" % n and "{0}".format(n) for an int n
FormatInt(n) == IF n < 0 THEN <<"-">> \o FormatNat(0 - n) ELSE FormatNat(n)

\* index of the last / first occurrence of character c in s, 0 when absent
LastIndexOf(s, c) ==
    IF \E k \in 1..Len(s) : s[k] = c
    THEN CHOOSE k \in 1..Len(s) : s[k] = c /\ \A j \in (k + 1)..Len(s) : s[j] # c
    ELSE 0

FirstIndexOf(s, c) ==
    IF \E k \in 1..Len(s) : s[k] = c
    THEN CHOOSE k \in 1..Len(s) : s[k] = c /\ \A j \in 1..(k - 1) : s[j] # c
    ELSE 0

\* os.path.dirname on a normalised posix path
os_path_dirname(p) ==
    LET k == LastIndexOf(p, "/")
    IN  IF k = 0 THEN <<>>
        ELSE IF k = 1 THEN <<"/">>
        ELSE SubSeq(p, 1, k - 1)

\* os.path.basename
os_path_basename(p) == SubSeq(p, LastIndexOf(p, "/") + 1, Len(p))

\* os.path.join(a, b)
os_path_join(a, b) ==
    IF Len(b) > 0 /\ b[1] = "/" THEN b
    ELSE IF a = <<>> \/ a[Len(a)] = "/" THEN a \o b
    ELSE a \o <<"/">> \o b

\* s.split(".")[0]
split_dot_0(s) ==
    LET k == FirstIndexOf(s, ".")
    IN  IF k = 0 THEN s ELSE SubSeq(s, 1, k - 1)

(***************************************************************************)
(* State.                                                                  *)
(***************************************************************************)
VARIABLES
    args,       \* the call of this session: function name and arguments
    remaining,  \* how many more times the caller issues the call
    pc,         \* position in the running call; "idle", "returned", "raised" between calls
    fs,         \* the filesystem: path -> content of each existing regular file
    dirs,       \* the existing temporary directories
    pre,        \* the filesystem as it was when the running call was entered
    locals,     \* local variables of the running call
    ext,        \* external tools and converters invoked by the running call, in order
    result      \* how the last call ended: the value returned or the exception raised

vars == <<args, remaining, pc, fs, dirs, pre, locals, ext, result>>

NoResult == [kind |-> "none"]
Return(v) == [kind |-> "return", value |-> v]
Raise(e) == [kind |-> "raise", exc |-> e]

AtRest == pc \in {"idle", "returned", "raised"}

\* os.path.isfile
isfile(path) == path \in DOMAIN fs

\* the caller issues the call once more
Enter(fn) ==
    /\ AtRest
    /\ remaining > 0
    /\ args.fn = fn
    /\ remaining' = remaining - 1
    /\ pre' = fs
    /\ UNCHANGED args

\* the call ends by raising e
Raises(e) == pc' = "raised" /\ result' = Raise(e)

\* the call ends by returning v
Returns(v) == pc' = "returned" /\ result' = Return(v)

Write(path, content) == [p \in DOMAIN fs \cup {path} |-> IF p = path THEN content ELSE fs[p]]

(***************************************************************************)
(* convert_connectomist_trk_fibers_to_tck                                  *)
(***************************************************************************)
Fn_trk == "convert_connectomist_trk_fibers_to_tck"

\* the paths whose existence is checked, in order
trk_checked_paths == <<args.dwi, args.trk_tractogram>>

\* the first checked path that is no file, as the for loop finds it
FirstMissing(paths) ==
    IF \E k \in 1..Len(paths) : ~isfile(paths[k])
    THEN LET k == CHOOSE k \in 1..Len(paths) :
                    ~isfile(paths[k]) /\ \A j \in 1..(k - 1) : isfile(paths[j])
         IN  <<paths[k]>>
    ELSE <<>>

\* variant: the extension is appended without looking at the path
trk_tck_tractogram_always(tck_tractogram) == tck_tractogram \o Str_tck

\* if not tck_tractogram.endswith(".tck"): tck_tractogram += ".tck"
trk_tck_tractogram(tck_tractogram) ==
    IF ~endswith(tck_tractogram, Str_tck) THEN tck_tractogram \o Str_tck
    ELSE tck_tractogram

\* tempfile.mkdtemp(prefix="tractconverter_", dir=None): a directory that does
\* not exist yet (the random part of the name is the smallest free number)
mkdtemp ==
    LET name(k) == os_path_join(Str_gettempdir, Str_tractconverter_ \o FormatInt(k))
        k == CHOOSE k \in 0..Cardinality(dirs) :
                name(k) \notin dirs /\ \A j \in 0..(k - 1) : name(j) \in dirs
    IN  name(k)

\* shutil.rmtree(d): the files left once d and everything below it is removed
rmtree_fs(d) ==
    LET keep == {p \in DOMAIN fs : ~startswith(p, d \o <<"/">>)}
    IN  [p \in keep |-> fs[p]]

\* import tractconverter (the package is installed), then the existence checks
TrkCall ==
    /\ Enter(Fn_trk)
    /\ ext' = <<>>
    /\ locals' = [tempdir |-> args.tempdir, tmp_trk_tractogram |-> NoneValue,
                  tck_tractogram |-> args.tck_tractogram, voxel_order |-> "None"]
    /\ IF FirstMissing(trk_checked_paths) # <<>>
       THEN Raises("ValueError")
       ELSE pc' = "trk_mkdtemp" /\ result' = NoResult
    /\ UNCHANGED <<fs, dirs>>

TrkMkdtemp ==
    /\ pc = "trk_mkdtemp"
    /\ dirs' = dirs \cup {mkdtemp}
    /\ locals' = [locals EXCEPT !.tempdir = mkdtemp]
    /\ pc' = "trk_load"
    /\ UNCHANGED <<args, remaining, fs, pre, ext, result>>

\* trk = nibabel.streamlines.load(trk_tractogram); trk.header["voxel_order"] = "LPI"
TrkLoad ==
    /\ pc = "trk_load"
    /\ ext' = Append(ext, [tool |-> "nibabel.streamlines.load", argv |-> <<args.trk_tractogram>>])
    /\ \/ /\ fs[args.trk_tractogram].kind = "trk"
          /\ locals' = [locals EXCEPT !.voxel_order = "LPI"]
          /\ pc' = "trk_save"
          /\ UNCHANGED result
       \/ /\ Raises("LoadError")
          /\ UNCHANGED locals
    /\ UNCHANGED <<args, remaining, fs, dirs, pre>>

\* tmp_trk_tractogram = os.path.join(tempdir, "tmp.trk"); trk.save(tmp_trk_tractogram)
\* then the .tck extension is added to the output path
TrkSave ==
    /\ pc = "trk_save"
    /\ LET tmp == os_path_join(locals.tempdir, Str_tmp_trk)
       IN  \/ /\ fs' = Write(tmp, [kind |-> "trk", voxel_order |-> locals.voxel_order])
              /\ locals' = [locals EXCEPT !.tmp_trk_tractogram = tmp,
                                !.tck_tractogram = trk_tck_tractogram(@)]
              /\ pc' = "trk_TRK"
              /\ UNCHANGED result
           \/ /\ Raises("SaveError")
              /\ locals' = [locals EXCEPT !.tmp_trk_tractogram = tmp]
              /\ UNCHANGED fs
    /\ UNCHANGED <<args, remaining, dirs, pre, ext>>

\* trk_fibers = tractconverter.TRK(tmp_trk_tractogram)
TrkOpen ==
    /\ pc = "trk_TRK"
    /\ ext' = Append(ext, [tool |-> "tractconverter.TRK", argv |-> <<locals.tmp_trk_tractogram>>])
    /\ \/ pc' = "trk_TCK_create" /\ UNCHANGED result
       \/ Raises("ConverterError")
    /\ UNCHANGED <<args, remaining, fs, dirs, pre, locals>>

\* tck_fibers = tractconverter.TCK.create(tck_tractogram, hdr=trk_fibers.hdr, anatFile=dwi)
TrkCreate ==
    /\ pc = "trk_TCK_create"
    /\ ext' = Append(ext, [tool |-> "tractconverter.TCK.create",
                           argv |-> <<locals.tck_tractogram, args.dwi>>])
    /\ \/ /\ fs' = Write(locals.tck_tractogram, [kind |-> "tck", by |-> Fn_trk, complete |-> FALSE])
          /\ pc' = "trk_convert"
          /\ UNCHANGED result
       \/ /\ Raises("ConverterError")
          /\ UNCHANGED fs
    /\ UNCHANGED <<args, remaining, dirs, pre, locals>>

\* tractconverter.convert(trk_fibers, tck_fibers)
TrkConvert ==
    /\ pc = "trk_convert"
    /\ ext' = Append(ext, [tool |-> "tractconverter.convert",
                           argv |-> <<locals.tmp_trk_tractogram, locals.tck_tractogram>>])
    /\ \/ /\ fs' = Write(locals.tck_tractogram, [kind |-> "tck", by |-> Fn_trk, complete |-> TRUE])
          /\ pc' = "trk_rmtree"
          /\ UNCHANGED result
       \/ /\ Raises("ConverterError")
          /\ UNCHANGED fs
    /\ UNCHANGED <<args, remaining, dirs, pre, locals>>

\* shutil.rmtree(tempdir); return tck_tractogram
TrkClean ==
    /\ pc = "trk_rmtree"
    /\ dirs' = dirs \ {locals.tempdir}
    /\ fs' = rmtree_fs(locals.tempdir)
    /\ Returns(locals.tck_tractogram)
    /\ UNCHANGED <<args, remaining, pre, locals, ext>>

(***************************************************************************)
(* convert_mitk_vtk_fibers_to_tck                                          *)
(*                                                                         *)
(* Memory: polydata.GetCell(i) fills the one cell object the polydata      *)
(* owns, so the point buffer `cellbuf` is overwritten by every GetCell.    *)
(* vtk_to_numpy wraps that buffer without copying.  An array reference is  *)
(* 0 for a view of the buffer and k > 0 for the k-th array numpy owns.     *)
(***************************************************************************)
Fn_vtk == "convert_mitk_vtk_fibers_to_tck"

vtk_checked_paths == <<args.vtk_tractogram>>

\* the points an array reference denotes
Deref(ref, arrays, cellbuf) == IF ref = 0 THEN cellbuf ELSE arrays[ref]

\* polydata.GetCell(i).GetPoints().GetData(): the buffer after the call
GetCell(polydata, i) == polydata[i + 1]

\* vtk_to_numpy(vtk_pts): a view of the buffer
vtk_to_numpy == 0

\* variant: numpy.asarray, which returns the view it is given
numpy_asarray(ref, arrays, cellbuf) == [ref |-> ref, arrays |-> arrays]

\* numpy.array(fiber_pts): a new array holding a copy; the reference and the new heap
numpy_array(ref, arrays, cellbuf) ==
    [ref |-> Len(arrays) + 1, arrays |-> Append(arrays, Deref(ref, arrays, cellbuf))]

\* numpy.diag(v)
numpy_diag(v) == [r \in 1..Len(v) |-> [c \in 1..Len(v) |-> IF r = c THEN v[r] ELSE 0]]

\* variant: only X is negated
lps_to_las == numpy_diag(<<-1, 1, 1, 1>>)

\* lps_to_ras = numpy.diag([-1, -1, 1, 1])
lps_to_ras == numpy_diag(<<-1, -1, 1, 1>>)

vtk_tck_tractogram(tck_tractogram) ==
    IF ~endswith(tck_tractogram, Str_tck) THEN tck_tractogram \o Str_tck
    ELSE tck_tractogram

VtkCall ==
    /\ Enter(Fn_vtk)
    /\ ext' = <<>>
    /\ locals' = [polydata |-> <<>>, nb_fibers |-> 0, i |-> 0, cellbuf |-> <<>>,
                  arrays |-> <<>>, fibers |-> <<>>, tck_tractogram |-> args.tck_tractogram]
    /\ IF FirstMissing(vtk_checked_paths) # <<>>
       THEN Raises("ValueError")
       ELSE pc' = "vtk_reader" /\ result' = NoResult
    /\ UNCHANGED <<fs, dirs>>

\* reader.SetFileName; reader.Update(); polydata = reader.GetOutput();
\* nb_fibers = polydata.GetNumberOfCells().  The reader reports a file it cannot
\* parse on its error stream and outputs an empty polydata.
VtkRead ==
    /\ pc = "vtk_reader"
    /\ ext' = Append(ext, [tool |-> "vtk.vtkPolyDataReader", argv |-> <<args.vtk_tractogram>>])
    /\ LET content == fs[args.vtk_tractogram]
           polydata == IF content.kind = "vtk" THEN content.cells ELSE <<>>
       IN  locals' = [locals EXCEPT !.polydata = polydata, !.nb_fibers = Len(polydata)]
    /\ pc' = "vtk_loop"
    /\ UNCHANGED <<args, remaining, fs, dirs, pre, result>>

\* one pass of: for i in range(nb_fibers)
VtkGetCell ==
    /\ pc = "vtk_loop"
    /\ locals.i < locals.nb_fibers
    /\ LET cellbuf == GetCell(locals.polydata, locals.i)
           fiber_pts == vtk_to_numpy
           fiber_pts_copy == numpy_array(fiber_pts, locals.arrays, cellbuf)
       IN  locals' = [locals EXCEPT !.cellbuf = cellbuf,
                                    !.arrays = fiber_pts_copy.arrays,
                                    !.fibers = Append(@, fiber_pts_copy.ref),
                                    !.i = @ + 1]
    /\ UNCHANGED <<args, remaining, pc, fs, dirs, pre, ext, result>>

\* the Tractogram built from the list of fibers, the .tck extension, TckFile.save
VtkSave ==
    /\ pc = "vtk_loop"
    /\ locals.i >= locals.nb_fibers
    /\ LET tractogram ==
               [streamlines |-> [k \in 1..Len(locals.fibers) |->
                                    Deref(locals.fibers[k], locals.arrays, locals.cellbuf)],
                affine_to_rasmm |-> lps_to_ras]
           tck_tractogram == vtk_tck_tractogram(locals.tck_tractogram)
       IN  /\ locals' = [locals EXCEPT !.tck_tractogram = tck_tractogram]
           /\ ext' = Append(ext, [tool |-> "nibabel.streamlines.TckFile.save",
                                  argv |-> <<tck_tractogram>>])
           /\ \/ /\ fs' = Write(tck_tractogram,
                                [kind |-> "tck", by |-> Fn_vtk, tractogram |-> tractogram])
                 /\ Returns(tck_tractogram)
              \/ /\ Raises("SaveError")
                 /\ UNCHANGED fs
    /\ UNCHANGED <<args, remaining, dirs, pre>>

(***************************************************************************)
(* mrtrix_extract_b0s_and_mean_b0                                          *)
(***************************************************************************)
Fn_b0 == "mrtrix_extract_b0s_and_mean_b0"

Str_dwiextract == <<"d", "w", "i", "e", "x", "t", "r", "a", "c", "t">>
Str_bzero == <<"-", "b", "z", "e", "r", "o">>
Str_nthreads == <<"-", "n", "t", "h", "r", "e", "a", "d", "s">>
Str_failonwarn == <<"-", "f", "a", "i", "l", "o", "n", "w", "a", "r", "n">>
Str_mrmath == <<"m", "r", "m", "a", "t", "h">>
Str_mean == <<"m", "e", "a", "n">>
Str_axis == <<"-", "a", "x", "i", "s">>

cmd_1 == <<Str_dwiextract, Str_bzero, args.dwi, args.b0s,
           Str_nthreads, FormatInt(args.nb_threads), Str_failonwarn>>

\* variant: mrmath is given the diffusion file, not the extracted b0 volumes
cmd_2_on_dwi == <<Str_mrmath, args.dwi, Str_mean, args.mean_b0, Str_axis, <<"3">>,
                  Str_nthreads, FormatInt(args.nb_threads), Str_failonwarn>>

cmd_2 == <<Str_mrmath, args.b0s, Str_mean, args.mean_b0, Str_axis, <<"3">>,
           Str_nthreads, FormatInt(args.nb_threads), Str_failonwarn>>

\* exit statuses of a child process
ExitCodes == {0, 1}

\* variant: subprocess.call, which returns the status and never raises
call_raises(rc) == FALSE

\* subprocess.check_call raises CalledProcessError on this exit status
check_call_raises(rc) == rc # 0

Started(cmd) == [tool |-> "subprocess.check_call", ev |-> "start", argv |-> cmd]
Exited(cmd, rc) == [tool |-> "subprocess.check_call", ev |-> "exit", argv |-> cmd, rc |-> rc]

\* subprocess.check_call(cmd_1) is entered: the child runs, or cannot be started
B0Call ==
    /\ Enter(Fn_b0)
    /\ locals' = [fn |-> Fn_b0]
    /\ ext' = <<Started(cmd_1)>>
    /\ \/ pc' = "b0_dwiextract" /\ result' = NoResult
       \/ Raises("OSError")
    /\ UNCHANGED <<fs, dirs>>

\* dwiextract exits; on status 0 subprocess.check_call(cmd_2) is entered
B0DwiextractExit ==
    /\ pc = "b0_dwiextract"
    /\ \E rc \in ExitCodes :
        IF check_call_raises(rc)
        THEN /\ ext' = Append(ext, Exited(cmd_1, rc))
             /\ Raises("CalledProcessError")
             /\ UNCHANGED fs
        ELSE /\ ext' = ext \o <<Exited(cmd_1, rc), Started(cmd_2)>>
             /\ fs' = IF rc = 0 THEN Write(args.b0s, [kind |-> "mif", by |-> Str_dwiextract])
                      ELSE fs
             /\ \/ pc' = "b0_mrmath" /\ UNCHANGED result
                \/ Raises("OSError")
    /\ UNCHANGED <<args, remaining, dirs, pre, locals>>

\* mrmath exits; the function returns None
B0MrmathExit ==
    /\ pc = "b0_mrmath"
    /\ \E rc \in ExitCodes :
        /\ ext' = Append(ext, Exited(cmd_2, rc))
        /\ IF check_call_raises(rc)
           THEN Raises("CalledProcessError") /\ UNCHANGED fs
           ELSE /\ Returns(NoneValue)
                /\ fs' = IF rc = 0 THEN Write(args.mean_b0, [kind |-> "mif", by |-> Str_mrmath])
                         ELSE fs
    /\ UNCHANGED <<args, remaining, dirs, pre, locals>>

(***************************************************************************)
(* extract_image                                                           *)
(*                                                                         *)
(* An image is its shape, its voxels (a function of 0-based index tuples)  *)
(* and its affine.                                                         *)
(***************************************************************************)
Fn_extract == "extract_image"

Str_extract == <<"e", "x", "t", "r", "a", "c", "t">>
Str_nii_gz == <<".", "n", "i", "i", ".", "g", "z">>

\* the index tuples of an array of this shape
Indices(shape) ==
    LET largest == CHOOSE m \in {shape[k] : k \in 1..Len(shape)} \cup {0} :
                        \A k \in 1..Len(shape) : shape[k] <= m
    IN  {t \in [1..Len(shape) -> 0..(largest - 1)] : \A k \in 1..Len(shape) : t[k] < shape[k]}

\* out_file = os.path.join(dirname, "extract{0}_{1}.nii.gz".format(index, basename))
default_out_file(in_file, index) ==
    LET dirname == os_path_dirname(in_file)
        basename == split_dot_0(os_path_basename(in_file))
    IN  os_path_join(dirname, Str_extract \o FormatInt(index) \o <<"_">> \o basename \o Str_nii_gz)

\* whether array[..., index] raises IndexError
index_out_of_bounds(shape, index) ==
    LET T == shape[Len(shape)] IN index >= T \/ index < 0 - T

\* variant: the first volume is taken whatever the index
extracted_array_first(image, index) ==
    LET n == Len(image.shape)
        shape == SubSeq(image.shape, 1, n - 1)
    IN  [shape |-> shape,
         data |-> [t \in Indices(shape) |-> image.data[Append(t, 0)]]]

\* image.get_data()[..., index]: the shape and the voxels of the extracted array
extracted_array(image, index) ==
    LET n == Len(image.shape)
        T == image.shape[n]
        last == IF index < 0 THEN index + T ELSE index
        shape == SubSeq(image.shape, 1, n - 1)
    IN  [shape |-> shape,
         data |-> [t \in Indices(shape) |-> image.data[Append(t, last)]]]

ExtractCall ==
    /\ Enter(Fn_extract)
    /\ ext' = <<>>
    /\ locals' = [out_file |-> IF args.out_file = NoneValue
                               THEN default_out_file(args.in_file, args.index)
                               ELSE args.out_file]
    /\ pc' = "extract_load"
    /\ result' = NoResult
    /\ UNCHANGED <<fs, dirs>>

\* nibabel.load, get_affine, get_data()[..., index], Nifti1Image, nibabel.save.
\* The array of an uncompressed image is mapped from the input file and read
\* only while it is saved: when out_file is the input file, the file is
\* truncated under the mapping and the voxels written are undefined.
ExtractRun ==
    /\ pc = "extract_load"
    /\ ext' = Append(ext, [tool |-> "nibabel.load", argv |-> <<args.in_file>>])
    /\ IF ~isfile(args.in_file)
       THEN Raises("FileNotFoundError") /\ UNCHANGED fs
       ELSE IF fs[args.in_file].kind # "nifti"
       THEN Raises("ImageFileError") /\ UNCHANGED fs
       ELSE LET image == fs[args.in_file]
                affine == image.affine
            IN  IF index_out_of_bounds(image.shape, args.index)
                THEN Raises("IndexError") /\ UNCHANGED fs
                ELSE LET array == extracted_array(image, args.index)
                         extracted_image == [kind |-> "nifti", shape |-> array.shape,
                                             data |-> array.data, affine |-> affine]
                     IN  \/ /\ fs' = Write(locals.out_file, extracted_image)
                            /\ Returns(locals.out_file)
                         \/ /\ locals.out_file = args.in_file
                            /\ \E d \in [Indices(array.shape) -> {0, 1}] :
                                fs' = Write(locals.out_file, [extracted_image EXCEPT !.data = d])
                            /\ Returns(locals.out_file)
                         \/ /\ Raises("SaveError")
                            /\ UNCHANGED fs
    /\ UNCHANGED <<args, remaining, dirs, pre, locals>>

(***************************************************************************)
(* fslreorient2std and apply_mask                                          *)
(*                                                                         *)
(* The FSL tool is a black box: it fails, or it ends well having written   *)
(* nothing, the output path itself, or that path with the extension of the *)
(* configured output type appended.  glob.glob returns the matching names  *)
(* in the order the directory lists them, which is any order.              *)
(***************************************************************************)
Fn_reorient == "fslreorient2std"
Fn_mask == "apply_mask"

Str_fslreorient2std == <<"f", "s", "l", "r", "e", "o", "r", "i", "e", "n", "t", "2", "s", "t", "d">>
Str_fslmaths == <<"f", "s", "l", "m", "a", "t", "h", "s">>
Str_mas == <<"-", "m", "a", "s">>
Str_nii == <<".", "n", "i", "i">>

reorient_checked_paths == <<args.input_image>>
\* variant: the mask file is not checked
mask_checked_paths_input_only == <<args.input_file>>
mask_checked_paths == <<args.input_file, args.mask_file>>

\* cmd = ["fslreorient2std", input_image, output_image]
reorient_cmd == <<Str_fslreorient2std, args.input_image, args.output_image>>

\* cmd = ["fslmaths", input_file, "-mas", mask_file, output_fileroot]
mask_cmd == <<Str_fslmaths, args.input_file, Str_mas, args.mask_file, args.output_fileroot>>

\* the files an FSL tool may write for an output argument: none, or one
FslOutputs(output) == {{}, {output}, {output \o Str_nii}, {output \o Str_nii_gz}}

\* glob.glob(output_image + "*")
reorient_glob == {p \in DOMAIN fs : startswith(p, args.output_image)}

\* glob.glob(output_fileroot + ".*")
mask_glob == {p \in DOMAIN fs : startswith(p, args.output_fileroot \o <<".">>)}

\* variant: an empty list of matches yields None
first_match_or_none(matches) ==
    IF matches = {} THEN {Return(NoneValue)} ELSE {Return(m) : m \in matches}

\* the ways `return matches[0]` can end for the set of matching names
first_match(matches) ==
    IF matches = {} THEN {Raise("IndexError")} ELSE {Return(m) : m \in matches}

\* fslprocess = FSLWrapper(cmd, shfile=fslconfig); fslprocess()
FslProcess(cmd, output, next) ==
    /\ ext' = Append(ext, [tool |-> "FSLWrapper", argv |-> cmd])
    /\ \/ /\ Raises("FSLRuntimeError")
          /\ UNCHANGED <<fs, locals>>
       \/ \E written \in FslOutputs(output) :
            /\ fs' = [p \in DOMAIN fs \cup written |->
                        IF p \in written THEN [kind |-> "nifti", by |-> cmd[1]] ELSE fs[p]]
            /\ locals' = [locals EXCEPT !.written = written]
            /\ pc' = next
            /\ UNCHANGED result
    /\ UNCHANGED <<args, remaining, dirs, pre>>

\* return glob.glob(...)[0]
GlobReturn(matches) ==
    /\ \E r \in first_match(matches) :
        /\ result' = r
        /\ pc' = IF r.kind = "return" THEN "returned" ELSE "raised"
    /\ UNCHANGED <<args, remaining, fs, dirs, pre, locals, ext>>

ReorientCall ==
    /\ Enter(Fn_reorient)
    /\ ext' = <<>>
    /\ locals' = [cmd |-> reorient_cmd, written |-> {}]
    /\ IF FirstMissing(reorient_checked_paths) # <<>>
       THEN Raises("ValueError")
       ELSE pc' = "reorient_fslprocess" /\ result' = NoResult
    /\ UNCHANGED <<fs, dirs>>

ReorientProcess ==
    /\ pc = "reorient_fslprocess"
    /\ FslProcess(locals.cmd, args.output_image, "reorient_glob")

ReorientGlob ==
    /\ pc = "reorient_glob"
    /\ GlobReturn(reorient_glob)

MaskCall ==
    /\ Enter(Fn_mask)
    /\ ext' = <<>>
    /\ locals' = [cmd |-> mask_cmd, written |-> {}]
    /\ IF FirstMissing(mask_checked_paths) # <<>>
       THEN Raises("ValueError")
       ELSE pc' = "mask_fslprocess" /\ result' = NoResult
    /\ UNCHANGED <<fs, dirs>>

MaskProcess ==
    /\ pc = "mask_fslprocess"
    /\ FslProcess(locals.cmd, args.output_fileroot, "mask_glob")

MaskGlob ==
    /\ pc = "mask_glob"
    /\ GlobReturn(mask_glob)

(***************************************************************************)
(* Sessions: the calls and filesystems a behaviour starts from.            *)
(***************************************************************************)
P_dwi == <<"d", "w", "i">>
P_trk == <<"f", ".", "t", "r", "k">>
P_vtk == <<"f", ".", "f", "i", "b">>
P_mask == <<"m", "a", "s", "k">>
P_img == <<"s", "/", "i", ".", "n", "i", "i">>
P_missing == <<"n", "o">>
P_out == <<"o">>
P_b0s == <<"b", "0", "s">>
P_mean_b0 == <<"m", "e", "a", "n", "b", "0">>

Identity == numpy_diag(<<1, 1, 1, 1>>)
\* a 2 mm grid shifted along x
Shifted == <<<<2, 0, 0, 5>>, <<0, 2, 0, 0>>, <<0, 0, 2, 0>>, <<0, 0, 0, 1>>>>

\* the 4D images of shape (2, 1, 1, T) with voxels 0 or 1
Images ==
    UNION {{[kind |-> "nifti", shape |-> <<2, 1, 1, T>>, data |-> d, affine |-> a] :
                d \in [Indices(<<2, 1, 1, T>>) -> {0, 1}], a \in {Identity, Shifted}} :
           T \in 1..MaxVols}

SampleImage ==
    [kind |-> "nifti", shape |-> <<2, 1, 1, 1>>,
     data |-> [t \in Indices(<<2, 1, 1, 1>>) |-> t[1]], affine |-> Identity]

Points == {<<1, 2, 3>>, <<-1, 0, 2>>}
Cells == UNION {[1..n -> Points] : n \in 0..MaxPts}
Polydatas == UNION {[1..n -> Cells] : n \in 0..MaxCells}

SamplePolydata == <<<<<<1, 2, 3>>, <<-1, 0, 2>>>>, <<<<-1, 0, 2>>>>>>

Content_trk == [kind |-> "trk", voxel_order |-> "LAS"]
Content_vtk(polydata) == [kind |-> "vtk", cells |-> polydata]

BaseFs ==
    (P_dwi :> SampleImage) @@ (P_trk :> Content_trk) @@ (P_mask :> SampleImage)
    @@ (P_vtk :> Content_vtk(SamplePolydata))

\* every string over the characters of ".tck" up to MaxPathLen characters
TckAlphabet == {".", "t", "c", "k"}
TckPaths == UNION {[1..n -> TckAlphabet] : n \in 0..MaxPathLen}

TckSamples == {<<"a">>, <<"a", ".", "t", "c", "k">>}

\* the session starts: this call, this filesystem, n calls to come
Start(call, files, n) ==
    /\ args = call
    /\ remaining = n
    /\ fs = files
    /\ pre = files
    /\ pc = "idle"
    /\ dirs = {}
    /\ locals = [fn |-> "none"]
    /\ ext = <<>>
    /\ result = NoResult

TrkCallOf(d, t, o) ==
    [fn |-> Fn_trk, dwi |-> d, trk_tractogram |-> t, tck_tractogram |-> o, tempdir |-> NoneValue]

TrkSessions ==
    \/ \E d \in {P_dwi, P_missing}, t \in {P_trk, P_dwi, P_missing}, o \in TckSamples :
        Start(TrkCallOf(d, t, o), BaseFs, MaxCalls)
    \/ \E o \in TckPaths :
        Start(TrkCallOf(P_dwi, P_trk, o), BaseFs, 1)

VtkCallOf(v, o) == [fn |-> Fn_vtk, vtk_tractogram |-> v, tck_tractogram |-> o]

VtkSessions ==
    \/ \E v \in {P_vtk, P_dwi, P_missing}, o \in TckSamples :
        Start(VtkCallOf(v, o), BaseFs, MaxCalls)
    \/ \E o \in TckPaths :
        Start(VtkCallOf(P_vtk, o), BaseFs, 1)
    \/ \E p \in Polydatas :
        Start(VtkCallOf(P_vtk, P_out), (P_vtk :> Content_vtk(p)) @@ BaseFs, 1)

B0Sessions ==
    \E d \in {P_dwi, P_missing}, b \in {P_b0s, P_out}, m \in {P_mean_b0, P_out},
       n \in 1..MaxThreads :
        Start([fn |-> Fn_b0, dwi |-> d, b0s |-> b, mean_b0 |-> m, nb_threads |-> n], BaseFs, 1)

ExtractSessions ==
    \E f \in {P_img, P_dwi, P_missing}, i \in (0 - MaxVols - 1)..MaxVols,
       o \in {NoneValue, P_img, P_out}, im \in Images :
        Start([fn |-> Fn_extract, in_file |-> f, index |-> i, out_file |-> o],
              (P_img :> im) @@ BaseFs, 1)

\* files left in the output directory by earlier runs
StaleNames == {P_out \o Str_nii, P_out \o <<".", "t", "x", "t">>, P_out \o <<"l", "d">>}
StaleFs(names) == [p \in names |-> [kind |-> "nifti", by |-> <<"s", "t", "a", "l", "e">>]]

FslSessions ==
    \/ \E i \in {P_dwi, P_missing}, o \in {P_out, P_out \o Str_nii}, stale \in SUBSET StaleNames :
        Start([fn |-> Fn_reorient, input_image |-> i, output_image |-> o],
              StaleFs(stale) @@ BaseFs, MaxCalls)
    \/ \E i \in {P_dwi, P_missing}, m \in {P_mask, P_missing},
          o \in {P_out, P_out \o Str_nii}, stale \in SUBSET StaleNames :
        Start([fn |-> Fn_mask, input_file |-> i, output_fileroot |-> o, mask_file |-> m],
              StaleFs(stale) @@ BaseFs, MaxCalls)

Init == TrkSessions \/ VtkSessions \/ B0Sessions \/ ExtractSessions \/ FslSessions

Next ==
    \/ TrkCall \/ TrkMkdtemp \/ TrkLoad \/ TrkSave \/ TrkOpen \/ TrkCreate \/ TrkConvert
    \/ TrkClean
    \/ VtkCall \/ VtkRead \/ VtkGetCell \/ VtkSave
    \/ B0Call \/ B0DwiextractExit \/ B0MrmathExit
    \/ ExtractCall \/ ExtractRun
    \/ ReorientCall \/ ReorientProcess \/ ReorientGlob
    \/ MaskCall \/ MaskProcess \/ MaskGlob

Spec == Init /\ [][Next]_vars

(***************************************************************************)
(* Properties.                                                             *)
(***************************************************************************)
Ended == pc \in {"returned", "raised"}

\* the input paths each guarded function is said to check
GuardedInputs ==
    CASE args.fn = Fn_trk -> {args.dwi, args.trk_tractogram}
      [] args.fn = Fn_vtk -> {args.vtk_tractogram}
      [] args.fn = Fn_reorient -> {args.input_image}
      [] args.fn = Fn_mask -> {args.input_file, args.mask_file}
      [] OTHER -> {}

\* C1: in a guarded function, when a checked input path was not an existing file
\* at the entry of the call, the call has ended with ValueError and no external
\* tool or converter has been invoked in it.
C1_MissingInputRaisesValueError ==
    (pc # "idle" /\ \E p \in GuardedInputs : p \notin DOMAIN pre)
        => (pc = "raised" /\ result = Raise("ValueError") /\ ext = <<>>)

\* apply_mask was called with an existing image and a missing mask, and raised
C1_Witness ==
    /\ args.fn = Fn_mask
    /\ pc = "raised"
    /\ args.input_file \in DOMAIN pre
    /\ args.mask_file \notin DOMAIN pre

TmpTrkOf(tempdir) == tempdir \o <<"/">> \o Str_tmp_trk

\* C2: however a call of convert_connectomist_trk_fibers_to_tck ends after it
\* created its temporary directory, that directory and its tmp.trk are gone,
\* and no temporary directory is left behind by any earlier call.
C2_TempDirRemovedAtExit ==
    (args.fn = Fn_trk /\ Ended)
        => /\ dirs = {}
           /\ locals.tempdir # NoneValue => TmpTrkOf(locals.tempdir) \notin DOMAIN fs

\* p is some stem followed by ".tck"
EndsInTck(p) == \E n \in 0..Len(p) : p = SubSeq(p, 1, n) \o <<".", "t", "c", "k">>

\* C3: a converter that returns, returns (and has written to) the output path
\* itself when it ends in ".tck" and the path followed by one ".tck" otherwise;
\* the returned path ends in ".tck" and is left unchanged when given back as
\* output path.
C3_TckSuffixAppendedOnce ==
    (args.fn \in {Fn_trk, Fn_vtk} /\ pc = "returned")
        => LET p == args.tck_tractogram
               r == result.value
           IN  /\ EndsInTck(p) => r = p
               /\ ~EndsInTck(p) => r = p \o <<".", "t", "c", "k">>
               /\ EndsInTck(r)
               /\ r \in DOMAIN fs /\ fs[r].kind = "tck" /\ fs[r].by = args.fn
               /\ \E k \in 1..Len(ext) :
                    /\ ext[k].tool \in {"tractconverter.TCK.create",
                                        "nibabel.streamlines.TckFile.save"}
                    /\ ext[k].argv[1] = r
               /\ trk_tck_tractogram(r) = r
               /\ vtk_tck_tractogram(r) = r

\* the TRK converter returned for an output path that already carried the suffix
C3_Witness ==
    /\ args.fn = Fn_trk
    /\ pc = "returned"
    /\ Len(args.tck_tractogram) > 4
    /\ EndsInTck(args.tck_tractogram)
    /\ result.value = args.tck_tractogram

RECURSIVE ParseNat(_)
\* the number a string of decimal digits denotes
ParseNat(s) ==
    IF s = <<>> THEN 0
    ELSE 10 * ParseNat(SubSeq(s, 1, Len(s) - 1))
         + (CHOOSE d \in 0..9 : Digit(d) = s[Len(s)])

IsStart(e, tool) == e.ev = "start" /\ e.argv[1] = tool
IsExit(e, tool) == e.ev = "exit" /\ e.argv[1] = tool

\* C4: a call of mrtrix_extract_b0s_and_mean_b0 that returns has issued exactly
\* dwiextract -bzero dwi b0s and then mrmath b0s mean mean_b0 -axis 3, both with
\* -nthreads nb_threads; and mrmath is never started before dwiextract has
\* exited.
C4_TwoCallsInOrder ==
    args.fn = Fn_b0 =>
        /\ pc = "returned" =>
            /\ Len(ext) = 4
            /\ ext[1].ev = "start" /\ ext[2].ev = "exit"
            /\ ext[3].ev = "start" /\ ext[4].ev = "exit"
            /\ ext[2].argv = ext[1].argv /\ ext[4].argv = ext[3].argv
            /\ SubSeq(ext[1].argv, 1, 5) =
                    <<Str_dwiextract, <<"-", "b", "z", "e", "r", "o">>, args.dwi, args.b0s,
                      <<"-", "n", "t", "h", "r", "e", "a", "d", "s">>>>
            /\ SubSeq(ext[3].argv, 1, 7) =
                    <<Str_mrmath, args.b0s, <<"m", "e", "a", "n">>, args.mean_b0,
                      <<"-", "a", "x", "i", "s">>, <<"3">>,
                      <<"-", "n", "t", "h", "r", "e", "a", "d", "s">>>>
            /\ ext[3].argv[2] = ext[1].argv[4]
            /\ ext[1].argv[6] = ext[3].argv[8]
            /\ ParseNat(ext[1].argv[6]) = args.nb_threads
        /\ \A k \in 1..Len(ext) :
             IsStart(ext[k], Str_mrmath)
                => \E j \in 1..(k - 1) : IsExit(ext[j], Str_dwiextract) /\ ext[j].rc = 0

\* the function returned for a thread count of two digits
C4_Witness ==
    /\ args.fn = Fn_b0
    /\ pc = "returned"
    /\ args.nb_threads >= 10
    /\ args.b0s # args.mean_b0

\* C5: in mrtrix_extract_b0s_and_mean_b0 a non-zero exit of dwiextract ends the
\* call with that failure after one subprocess call and without mrmath; a
\* non-zero exit of mrmath ends it with that failure; the function returns only
\* when both exited with status zero; no command is started twice.
C5_FailsHardOnToolFailure ==
    args.fn = Fn_b0 =>
        /\ \A k \in 1..Len(ext) :
             (ext[k].ev = "exit" /\ ext[k].rc # 0)
                => /\ pc = "raised"
                   /\ result = Raise("CalledProcessError")
                   /\ k = Len(ext)
                   /\ IsExit(ext[k], Str_dwiextract) => Len(ext) = 2
        /\ pc = "returned" =>
             /\ \E k \in 1..Len(ext) : IsExit(ext[k], Str_dwiextract) /\ ext[k].rc = 0
             /\ \E k \in 1..Len(ext) : IsExit(ext[k], Str_mrmath) /\ ext[k].rc = 0
        /\ \A tool \in {Str_dwiextract, Str_mrmath} :
             Cardinality({k \in 1..Len(ext) : IsStart(ext[k], tool)}) <= 1

\* dwiextract exited with status 1 and the call raised
C5_Witness ==
    /\ args.fn = Fn_b0
    /\ pc = "raised"
    /\ Len(ext) = 2
    /\ ext[2].ev = "exit" /\ ext[2].rc = 1

\* the call was extract_image on a 4D image with an index in [0, T)
ExtractedValidVolume ==
    /\ args.fn = Fn_extract
    /\ pc = "returned"
    /\ args.in_file \in DOMAIN pre
    /\ Len(pre[args.in_file].shape) = 4
    /\ args.index \in 0..(pre[args.in_file].shape[4] - 1)

\* the file returned holds volume args.index of the input image, with its affine
ExtractedImageWritten ==
    LET input == pre[args.in_file]
        output == fs[result.value]
    IN  /\ result.value \in DOMAIN fs
        /\ output.shape = <<input.shape[1], input.shape[2], input.shape[3]>>
        /\ \A x \in 0..(input.shape[1] - 1), y \in 0..(input.shape[2] - 1),
              z \in 0..(input.shape[3] - 1) :
                output.data[<<x, y, z>>] = input.data[<<x, y, z, args.index>>]
        /\ output.affine = input.affine

\* C6 as stated: extract_image on a 4D image with a valid index writes the 3D
\* volume at that index with the input's affine, and the input file is not
\* modified.
C6_ExtractsVolumeInputUntouched ==
    ExtractedValidVolume
        => /\ ExtractedImageWritten
           /\ fs[args.in_file] = pre[args.in_file]

\* C6 amended: extract_image on a 4D image with a valid index and an out_file
\* that is not the input file itself (the default out_file never is) writes the
\* 3D volume at that index with the input's affine, and the input file is not
\* modified.
C6_ExtractsVolume ==
    ExtractedValidVolume
        => /\ args.out_file = NoneValue => result.value # args.in_file
           /\ args.out_file # args.in_file
                => /\ ExtractedImageWritten
                   /\ fs[args.in_file] = pre[args.in_file]

\* the last of several volumes was extracted to the default output path
C6_Witness ==
    /\ ExtractedValidVolume
    /\ args.in_file = P_img
    /\ args.out_file = NoneValue
    /\ args.index >= 1
    /\ \E x \in 0..1 : pre[P_img].data[<<x, 0, 0, args.index>>] # pre[P_img].data[<<x, 0, 0, 0>>]

\* the first characters of p are those of prefix
HasPrefix(p, prefix) ==
    /\ Len(p) >= Len(prefix)
    /\ \A k \in 1..Len(prefix) : p[k] = prefix[k]

\* no existing file has a name the function's glob pattern matches
NoOutputFound ==
    CASE args.fn = Fn_reorient ->
            ~\E p \in DOMAIN fs : HasPrefix(p, args.output_image)
      [] args.fn = Fn_mask ->
            ~\E p \in DOMAIN fs : HasPrefix(p, args.output_fileroot \o <<".">>)

\* C7: when fslreorient2std or apply_mask has run its tool and no file matches
\* the output pattern, the call ends with a failure and returns no value.
C7_NoOutputFails ==
    (args.fn \in {Fn_reorient, Fn_mask} /\ Ended /\ ext # <<>> /\ NoOutputFound)
        => (pc = "raised" /\ result.kind = "raise")

\* apply_mask ran fslmaths, which ended well, and no file matched: IndexError
C7_Witness ==
    /\ args.fn = Fn_mask
    /\ pc = "raised"
    /\ result = Raise("IndexError")
    /\ NoOutputFound

\* C8: while convert_mitk_vtk_fibers_to_tck reads the cells, fiber i holds the
\* points of cell i for every cell read so far and no two fibers share an array
\* or the reader's buffer; the tractogram it saves has exactly the K cells of
\* the input as its fibers, in order.
C8_OneFiberPerCell ==
    (args.fn = Fn_vtk /\ args.vtk_tractogram \in DOMAIN pre
        /\ pre[args.vtk_tractogram].kind = "vtk")
        => LET cells == pre[args.vtk_tractogram].cells
           IN  /\ pc = "vtk_loop" =>
                    /\ Len(locals.fibers) = locals.i
                    /\ \A k \in 1..Len(locals.fibers) :
                        /\ locals.fibers[k] # 0
                        /\ Deref(locals.fibers[k], locals.arrays, locals.cellbuf) = cells[k]
                        /\ \A j \in 1..Len(locals.fibers) :
                            j # k => locals.fibers[j] # locals.fibers[k]
               /\ pc = "returned" =>
                    /\ Len(fs[result.value].tractogram.streamlines) = Len(cells)
                    /\ \A k \in 1..Len(cells) :
                        /\ Len(fs[result.value].tractogram.streamlines[k]) = Len(cells[k])
                        /\ fs[result.value].tractogram.streamlines[k] = cells[k]

\* a polydata of two cells of different point counts was converted
C8_Witness ==
    /\ args.fn = Fn_vtk
    /\ pc = "returned"
    /\ args.vtk_tractogram \in DOMAIN pre
    /\ pre[args.vtk_tractogram].kind = "vtk"
    /\ Len(pre[args.vtk_tractogram].cells) = 2
    /\ Len(pre[args.vtk_tractogram].cells[1]) > Len(pre[args.vtk_tractogram].cells[2])
    /\ Len(pre[args.vtk_tractogram].cells[2]) > 0

\* nibabel's apply_affine on one point: the 3x3 part times the point, plus the
\* translation column
ApplyAffine(aff, pt) ==
    [r \in 1..3 |-> aff[r][1] * pt[1] + aff[r][2] * pt[2] + aff[r][3] * pt[3] + aff[r][4]]

\* C9: the tractogram saved by convert_mitk_vtk_fibers_to_tck carries the affine
\* diag(-1, -1, 1, 1), which sends every point (x, y, z) of every fiber to
\* (-x, -y, z) and is its own inverse.
C9_LpsToRasAffine ==
    (args.fn = Fn_vtk /\ pc = "returned")
        => LET t == fs[result.value].tractogram
           IN  /\ t.affine_to_rasmm =
                    <<<<-1, 0, 0, 0>>, <<0, -1, 0, 0>>, <<0, 0, 1, 0>>, <<0, 0, 0, 1>>>>
               /\ \A k \in 1..Len(t.streamlines) : \A n \in 1..Len(t.streamlines[k]) :
                    LET pt == t.streamlines[k][n]
                    IN  /\ ApplyAffine(t.affine_to_rasmm, pt) = <<0 - pt[1], 0 - pt[2], pt[3]>>
                        /\ ApplyAffine(t.affine_to_rasmm, ApplyAffine(t.affine_to_rasmm, pt)) = pt

\* a fiber with the point (1, 2, 3) was saved
C9_Witness ==
    /\ args.fn = Fn_vtk
    /\ pc = "returned"
    /\ \E k \in 1..Len(fs[result.value].tractogram.streamlines) :
        \E n \in 1..Len(fs[result.value].tractogram.streamlines[k]) :
            fs[result.value].tractogram.streamlines[k][n] = <<1, 2, 3>>

\* C10: the path fslreorient2std or apply_mask returns is a file written by the
\* tool run of this call.
C10_ReturnsFileOfThisRun ==
    (args.fn \in {Fn_reorient, Fn_mask} /\ pc = "returned")
        => result.value \in locals.written

====
